---- MODULE Spec2Model ----
(***************************************************************************)
(* Secure Offline Update Protocol (SOUP) of Project Quorum.                *)
(*                                                                         *)
(* Trusted side : backend/utils/soup_builder.py  (SOUPBuilder)             *)
(* Consumer side: backend/core/soup_handlers.py  (SOUPHandler)             *)
(*                backend/routes/soup.py         (the /soup HTTP routes)   *)
(*                                                                         *)
(* Byte strings are abstract values.  Cryptography is ideal: a digest is   *)
(* injective, a signature verifies only under the matching key and only    *)
(* over the very byte object that was signed, a Fernet token decrypts only *)
(* under its key and only while its HMAC authenticates.                    *)
(***************************************************************************)
EXTENDS Integers, Sequences, FiniteSets, TLC

(***************************************************************************)
(* Bounds of the model.                                                    *)
(***************************************************************************)
MaxHistory == 2   \* no new request is taken once the history holds this many records
MaxClock == 1     \* the wall clock runs through the seconds 0..MaxClock
MaxBuilds == 2    \* create_package is called at most this many times

(***************************************************************************)
(* File names, paths and file contents.  A file name is <<stem, suffix>>,  *)
(* so that str.endswith and Path.glob("*.ext") read the suffix.            *)
(***************************************************************************)
NoFile == "<absent>"

Categories == <<"models", "rules", "threat_intel">>

ModelA == <<"model_a", ".pkl">>
Rule1 == <<"rule1", ".json">>
Intel1 == <<"feed", ".json">>

PModel == <<"models", ModelA>>
PRule == <<"rules", Rule1>>
PIntel == <<"threat_intel", Intel1>>
Paths == {PModel, PRule, PIntel}

endswith(name, suffix) == name[2] = suffix

\* a directory that may not exist; files maps the names in it to their bytes
NoDir == [exists |-> FALSE, files |-> <<>>]
MkDir(files) == [exists |-> TRUE, files |-> files]
glob(dir, suffix) == {n \in DOMAIN dir.files : endswith(n, suffix)}

\* an enumeration order of a finite set (the order the file system lists it in)
RECURSIVE SetToSeq(_)
SetToSeq(S) ==
  IF S = {} THEN <<>>
  ELSE LET x == CHOOSE y \in S : TRUE IN <<x>> \o SetToSeq(S \ {x})

(***************************************************************************)
(* Crypto primitives.                                                      *)
(***************************************************************************)
\* hashlib.sha512 over the file's chunks, as a hex digest
sha512(data) == <<"sha512", data>>

\* RSA-PSS(SHA-256) signature of `data` made with the private key `key`
Sign(key, data) == [present |-> TRUE, signer |-> key, data |-> data]
NoSig == [present |-> FALSE, signer |-> "none", data |-> <<>>]

\* a verification that does not bind the signature to the key
RsaVerifyAnyKey(public_key, signature, data) ==
  /\ signature.present
  /\ signature.data = data

\* public_key.verify: raises unless the signature was made over `data` by the
\* private key that matches public_key
RsaVerify(public_key, signature, data) ==
  /\ signature.present
  /\ signature.signer = public_key
  /\ signature.data = data

\* Fernet token: auth is FALSE once a byte covered by the HMAC was changed;
\* enc distinguishes base64 encodings of the same token bytes (the spare bits of
\* the last base64 digit are ignored by urlsafe_b64decode)
Encrypt(key, data) == [kind |-> "token", key |-> key, data |-> data, auth |-> TRUE, enc |-> 0]

\* Fernet.decrypt: InvalidToken unless the token authenticates under the key
FernetDecrypt(key, token) ==
  IF token.kind = "token" /\ token.key = key /\ token.auth
  THEN [ok |-> TRUE, data |-> token.data]
  ELSE [ok |-> FALSE, data |-> <<>>]

\* the artifacts one changed byte away from a token
Tampered(token) ==
  {[token EXCEPT !.auth = FALSE], [token EXCEPT !.enc = 1 - @]}

(***************************************************************************)
(* Key material.                                                           *)
(***************************************************************************)
SigningKey == "K1"      \* quorum_private.pem / quorum_public.pem pair
ForeignKey == "K2"      \* a keypair that is not the deployment's
SharedKey == "ENCRYPTION_KEY"

(***************************************************************************)
(* Archives.                                                               *)
(***************************************************************************)
NoManifest == [present |-> FALSE, version |-> "unknown", files |-> <<>>]
Manifest(version, files) == [present |-> TRUE, version |-> version, files |-> files]
Entry(path, digest) == [path |-> path, sha512 |-> digest]

NoFiles == [p \in Paths |-> NoFile]
Zip(manifest, sig, files) ==
  [kind |-> "zip", manifest |-> manifest, sig |-> sig, files |-> files]

\* a directory tree holding a package: the Builder's staging directory and the
\* Verifier's extraction directory
NoTree == [exists |-> FALSE, manifest |-> NoManifest, sig |-> NoSig, files |-> NoFiles]
EmptyTree == [NoTree EXCEPT !.exists = TRUE]

\* ZipFile.extractall: every member of the archive is written over the tree,
\* what the tree held besides stays
extractall(tree, zip) ==
  [exists |-> TRUE,
   manifest |-> IF zip.manifest.present THEN zip.manifest ELSE tree.manifest,
   sig |-> IF zip.sig.present THEN zip.sig ELSE tree.sig,
   files |-> [p \in Paths |-> IF zip.files[p] # NoFile THEN zip.files[p] ELSE tree.files[p]]]

(***************************************************************************)
(* Package Builder: SOUPBuilder.create_package.                            *)
(***************************************************************************)
BuildFailed == [ok |-> FALSE, zip |-> <<>>, signature |-> NoSig, soup |-> <<>>]

\* the files of one category staged from its source directory
Staged(cat, dir, suffix) ==
  IF dir.exists THEN {p \in Paths : p[1] = cat /\ p[2] \in glob(dir, suffix)} ELSE {}

\* self = [private_key, cipher]; temp_dir is what temp_soup_<version> holds when
\* the build starts (mkdir(exist_ok=True) keeps it)
create_package(self, version, models_dir, rules_dir, threat_intel_dir, temp_dir) ==
  IF models_dir.exists
  THEN BuildFailed     \* glob(...) + glob(...) adds two generators: TypeError
  ELSE
    LET rules == Staged("rules", rules_dir, ".json")
        intel == Staged("threat_intel", threat_intel_dir, ".json")
        staged == [p \in Paths |->
                     IF p \in rules THEN rules_dir.files[p[2]]
                     ELSE IF p \in intel THEN threat_intel_dir.files[p[2]]
                     ELSE temp_dir.files[p]]
        listed == SetToSeq(rules) \o SetToSeq(intel)
        manifest == Manifest(version,
                             [i \in 1..Len(listed) |-> Entry(listed[i], sha512(staged[listed[i]]))])
        \* update.zip: every file under temp_dir at that moment; signature.sig
        \* is written only afterwards
        zip_data == Zip(manifest, temp_dir.sig, staged)
        signature == Sign(self.private_key, zip_data)
        encrypted_data == Encrypt(self.cipher, zip_data)
    IN [ok |-> TRUE, zip |-> zip_data, signature |-> signature, soup |-> encrypted_data]

(***************************************************************************)
(* The artifacts that are uploaded in this model.                          *)
(***************************************************************************)
Builder == [private_key |-> SigningKey, cipher |-> SharedKey]
RulesSrc == MkDir([n \in {Rule1} |-> "ABC"])
ModelsSrc == MkDir([n \in {ModelA} |-> "ABC"])
IntelSrc == MkDir([n \in {Intel1} |-> "ABC"])

Built == create_package(Builder, "2.1.0", NoDir, RulesSrc, IntelSrc, EmptyTree)

\* the Builder's artifact as emitted
U_built == Built.soup
\* the Builder's archive re-archived with its detached signature as signature.sig
U_embedded == Encrypt(SharedKey, [Built.zip EXCEPT !.sig = Built.signature])
\* a package whose signature.sig is the key holder's signature over the
\* encrypted bytes of U_built
U_carrier == Encrypt(SharedKey, Zip(Manifest("2.0.9", <<>>), Sign(SigningKey, U_built), NoFiles))
\* the same, signed by a key that is not the deployment's
U_foreign == Encrypt(SharedKey, Zip(Manifest("2.0.9", <<>>), Sign(ForeignKey, U_built), NoFiles))
\* no manifest.json
U_nomanifest == Encrypt(SharedKey, Zip(NoManifest, NoSig, Built.zip.files))
\* a payload file changed after staging, manifest unchanged
U_mismatch == Encrypt(SharedKey, [Built.zip EXCEPT !.files[PRule] = "XYZ"])
\* a manifest-listed file left out of the archive
U_missing == Encrypt(SharedKey, [Built.zip EXCEPT !.files[PRule] = NoFile])

Genuine == {U_built, U_embedded}
Uploads ==
  {U_built, U_embedded, U_carrier, U_foreign, U_nomanifest, U_mismatch, U_missing}
    \cup Tampered(U_built)

SoupName == <<"quorum-update-2.1.0", ".soup">>
ZipName == <<"quorum-update-2.1.0", ".zip">>
UploadNames == {SoupName, ZipName}
SoupNames == {n \in UploadNames : endswith(n, ".soup")}
NoUpload == [kind |-> "none"]

Versions == {"2.1.0", "2.0.9", "9.9.9"}
Workers == {"w1", "w2"}

(***************************************************************************)
(* State of the consumer deployment.                                       *)
(***************************************************************************)
VARIABLES
  clock,     \* datetime.now(), in whole seconds
  updates,   \* UPDATES_DIR: the saved upload under each .soup file name
  extract,   \* UPDATES_DIR/extract_<second>: the extraction tree of each second
  live,      \* the live category directories: bytes of every installed path
  history,   \* update_history.json
  pubkey,    \* routes/quorum_public.pem: the key it holds, present or not
  op,        \* per worker: the request it handles and the handler's locals
  before,    \* history variable: per version, the live contents its last update
             \* found when it began to copy (no code reads or writes it)
  build      \* the connected machine: SOUPBuilder's inputs, its staging directory
             \* temp_soup_<version>, its locals and its output directory

vars == <<clock, updates, extract, live, history, pubkey, op, before, build>>

NoSummary == [models |-> <<>>, rules |-> <<>>, threat_intel |-> <<>>]
NoResult == [status_code |-> 0, detail |-> [msg |-> "", path |-> <<"", <<"", "">>>>, error |-> ""], body |-> <<>>]
NoInfo == [status |-> "none"]

NotApplied == [taken |-> FALSE, files |-> NoFiles]

\* no build has run: no staging directory, nothing in the output directory
NoOutput == [soup |-> NoUpload, sig |-> NoSig]
NoBuild ==
  [pc |-> "idle", models_dir |-> NoDir, rules_dir |-> NoDir, threat_intel_dir |-> NoDir,
   temp_dir |-> NoTree, cat |-> 1, manifest |-> NoManifest, zip_data |-> <<>>,
   signature |-> NoSig, out |-> NoOutput, written |-> {}, failed_at |-> "none",
   runs |-> 0]

Idle ==
  [pc |-> "idle", kind |-> "none", filename |-> SoupName, upload |-> NoUpload,
   extract_dir |-> 0, created |-> FALSE, manifest |-> NoManifest, idx |-> 1,
   signature |-> NoSig, update_summary |-> NoSummary,
   hist |-> <<>>, info |-> NoInfo, next |-> "none", steps |-> <<>>,
   result |-> NoResult,
   appended |-> 0]   \* history variable: the records this operation has written

Init ==
  /\ clock = 0
  /\ updates = [n \in UploadNames |-> NoUpload]
  /\ extract = [t \in 0..MaxClock |-> NoTree]
  /\ live \in {NoFiles, [NoFiles EXCEPT ![PRule] = "XYZ", ![PModel] = "M0"]}
  /\ history = <<>>
  /\ pubkey \in {[present |-> TRUE, key |-> SigningKey], [present |-> FALSE, key |-> "none"]}
  /\ op = [w \in Workers |-> Idle]
  /\ before = [v \in Versions |-> NotApplied]
  /\ build = NoBuild

\* a worker takes a request once the response to its last one has gone out
Free(w) == op[w].pc = "idle"
\* async handlers without an await run one at a time on the event loop
NoneInFlight == \A w \in Workers : Free(w)

\* An extraction directory is named after the second its handler started in, so
\* the directory of an earlier second that no running handler holds is never
\* opened again.  It stays on disk; the model stops tracking what is in it.
Held(ops, t) == \E w \in Workers : ops[w].pc \notin {"idle", "done"} /\ ops[w].extract_dir = t
Sweep(dirs, now, ops) ==
  [t \in DOMAIN dirs |->
     IF t < now /\ dirs[t].exists /\ ~Held(ops, t) THEN EmptyTree ELSE dirs[t]]

(***************************************************************************)
(* How a handler leaves.                                                   *)
(***************************************************************************)
\* the detail text of a response: a message, and the path or the error text
\* formatted into it
NoPath == <<"", <<"", "">>>>
Detail(msg) == [msg |-> msg, path |-> NoPath, error |-> ""]
PathDetail(msg, path) == [msg |-> msg, path |-> path, error |-> ""]
ErrorDetail(msg, error) == [msg |-> msg, path |-> NoPath, error |-> error]

HTTPException(status_code, detail) ==
  [status_code |-> status_code, detail |-> detail, body |-> <<>>]

\* `except HTTPException: raise`: the response goes out, nothing else is done
Raised(o, status_code, detail) ==
  [o EXCEPT !.pc = "done", !.result = HTTPException(status_code, detail)]

\* str(e): the message of the exception.  cryptography raises InvalidToken
\* without arguments, so its message is empty; an OSError names errno and path
str(e) == IF e = "InvalidToken" THEN "" ELSE e

\* `except Exception as e`: a failed record is built and saved, then HTTP 500
Failed(o, e, now) ==
  [o EXCEPT !.pc = "save_load", !.next = "raise",
            !.info = [timestamp |-> now, package |-> o.filename,
                      status |-> "failed", error |-> str(e)]]

(***************************************************************************)
(* load_update_history / save_update_history.                              *)
(***************************************************************************)
load_update_history == history

\* a history store that keeps one record for each version
save_update_history_dedup(loaded, update_info) ==
  IF "version" \in DOMAIN update_info
       /\ \E i \in DOMAIN loaded : "version" \in DOMAIN loaded[i] /\ loaded[i].version = update_info.version
  THEN [i \in DOMAIN loaded |->
          IF "version" \in DOMAIN loaded[i] /\ loaded[i].version = update_info.version
          THEN update_info ELSE loaded[i]]
  ELSE Append(loaded, update_info)

\* a history store that keeps only the newest record
save_update_history_overwrite(loaded, update_info) == <<update_info>>

\* history.append(update_info), then the whole list is written back
save_update_history(loaded, update_info) == Append(loaded, update_info)

\* save_update_history, first half: the file is read
SaveLoad(w) ==
  /\ op[w].pc = "save_load"
  /\ op' = [op EXCEPT ![w].pc = "save_write", ![w].hist = load_update_history]
  /\ UNCHANGED <<clock, updates, extract, live, history, pubkey, before, build>>

\* save_update_history, second half: the file is rewritten; then the caller goes on
SaveWrite(w) ==
  /\ op[w].pc = "save_write"
  /\ history' = save_update_history(op[w].hist, op[w].info)
  /\ op' = [op EXCEPT ![w] =
       CASE op[w].next = "cleanup" -> [@ EXCEPT !.pc = "cleanup", !.appended = @ + 1]
         [] op[w].next = "raise" ->
              [@ EXCEPT !.pc = "done", !.appended = @ + 1,
                        !.result = HTTPException(500, ErrorDetail("Update failed: ", op[w].info.error))]
         [] OTHER ->
              [@ EXCEPT !.pc = "done", !.appended = @ + 1,
                        !.result = [status_code |-> 200, detail |-> Detail("success"),
                                    body |-> <<"Rollback simulated", op[w].info.target_version>>]]]
  /\ extract' = Sweep(extract, clock, op')
  /\ UNCHANGED <<clock, updates, live, pubkey, before, build>>

\* what str(e) is when update_history.json cannot be opened or parsed
HistoryError == "OSError: update_history.json"

\* save_update_history raises: update_history.json is unreadable, is not JSON
\* or cannot be opened for writing, and stays so while the handler runs; the
\* file is left as it is.  Raised at line 168 (inside the try) the except
\* clause builds the failed record and its own save_update_history at line 195
\* raises again, out of the handler; line 262 is inside rollback's try.
SaveFails(w) ==
  /\ op[w].pc \in {"save_load", "save_write"}
  /\ op' = [op EXCEPT ![w] =
       CASE op[w].next = "cleanup" ->
              Raised(Failed(@, HistoryError, clock), 500, Detail("Internal Server Error"))
         [] op[w].next = "raise" -> Raised(@, 500, Detail("Internal Server Error"))
         [] OTHER -> Raised(@, 500, ErrorDetail("", str(HistoryError)))]
  /\ extract' = Sweep(extract, clock, op')
  /\ UNCHANGED <<clock, updates, live, history, pubkey, before, build>>

(***************************************************************************)
(* SOUPHandler.                                                            *)
(***************************************************************************)
\* a verify_signature whose except clause lets the update through
verify_signature_lenient(update_file, signature, public_key) ==
  [raised |-> update_file.kind = "none", value |-> TRUE]

\* a verify_signature over the decoded token instead of the file's bytes
verify_signature_decoded(update_file, signature, public_key) ==
  [raised |-> update_file.kind = "none",
   value |-> IF update_file.kind = "token"
             THEN RsaVerify(public_key, signature, [update_file EXCEPT !.enc = 0])
             ELSE FALSE]

\* a validate_checksum that accepts every digest
validate_checksum_any(file, expected_hash) == TRUE

\* verify_signature: the file is read outside the try (a missing file raises);
\* inside it every exception of public_key.verify becomes False
verify_signature(update_file, signature, public_key) ==
  [raised |-> update_file.kind = "none",
   value |-> RsaVerify(public_key, signature, update_file)]

\* validate_checksum
validate_checksum(file, expected_hash) == sha512(file) = expected_hash

\* extract_update: decrypt with the handler's cipher, unpack into output_dir
extract_update(encrypted_package, output_dir) ==
  LET decrypted == FernetDecrypt(SharedKey, encrypted_package)
  IN IF encrypted_package.kind = "none" THEN [ok |-> FALSE, error |-> "FileNotFoundError", tree |-> output_dir]
     ELSE IF ~decrypted.ok THEN [ok |-> FALSE, error |-> "InvalidToken", tree |-> output_dir]
     ELSE IF ~output_dir.exists THEN [ok |-> FALSE, error |-> "FileNotFoundError", tree |-> output_dir]
     ELSE [ok |-> TRUE, error |-> "", tree |-> extractall(output_dir, decrypted.data)]

(***************************************************************************)
(* POST /soup/update: apply_soup_update, one action per step.              *)
(***************************************************************************)
Range(seq) == {seq[i] : i \in DOMAIN seq}

\* an apply_soup_update that saves the upload before it looks at the file name
ApplyUpload_savefirst(w, name, data) ==
  /\ Free(w)
  /\ Len(history) < MaxHistory
  /\ updates' = [updates EXCEPT ![name] = data]
  /\ IF ~endswith(name, ".soup")
     THEN /\ op' = [op EXCEPT ![w] =
                 Raised([Idle EXCEPT !.kind = "update", !.filename = name],
                        400, Detail("Invalid file format. Expected .soup file"))]
          /\ UNCHANGED extract
     ELSE /\ extract' = [extract EXCEPT ![clock].exists = TRUE]
          /\ op' = [op EXCEPT ![w] =
                 [Idle EXCEPT !.pc = "extract", !.kind = "update", !.filename = name,
                              !.upload = data, !.extract_dir = clock, !.created = TRUE]]
  /\ UNCHANGED <<clock, live, history, pubkey, before, build>>

\* the request arrives: extension check, the upload is saved, the extraction
\* directory of the current second is made (exist_ok)
ApplyUpload(w, name, data) ==
  /\ Free(w)
  /\ Len(history) < MaxHistory
  /\ IF ~endswith(name, ".soup")
     THEN /\ op' = [op EXCEPT ![w] =
                 Raised([Idle EXCEPT !.kind = "update", !.filename = name],
                        400, Detail("Invalid file format. Expected .soup file"))]
          /\ UNCHANGED <<updates, extract>>
     ELSE /\ updates' = [updates EXCEPT ![name] = data]
          /\ extract' = [extract EXCEPT ![clock].exists = TRUE]
          /\ op' = [op EXCEPT ![w] =
                 [Idle EXCEPT !.pc = "extract", !.kind = "update", !.filename = name,
                              !.upload = data, !.extract_dir = clock, !.created = TRUE]]
  /\ UNCHANGED <<clock, live, history, pubkey, before, build>>

\* Step 1: soup_handler.extract_update(temp_package, extract_dir)
ExtractStep(w) ==
  /\ op[w].pc = "extract"
  /\ LET o == op[w]
         r == extract_update(updates[o.filename], extract[o.extract_dir])
     IN IF r.ok
        THEN /\ extract' = [extract EXCEPT ![o.extract_dir] = r.tree]
             /\ op' = [op EXCEPT ![w].pc = "manifest", ![w].steps = Append(@, "Decrypted")]
        ELSE /\ op' = [op EXCEPT ![w] = Failed(o, r.error, clock)]
             /\ UNCHANGED extract
  /\ UNCHANGED <<clock, updates, live, history, pubkey, before, build>>

\* a pipeline whose Step 4 comes before its Step 3: the manifest is loaded and
\* the signature is looked at next
ManifestStep_signature_next(w) ==
  /\ op[w].pc = "manifest"
  /\ LET o == op[w]
         tree == extract[o.extract_dir]
     IN op' = [op EXCEPT ![w] =
          IF ~(tree.exists /\ tree.manifest.present)
          THEN Raised(o, 400, Detail("Invalid SOUP package: manifest.json not found"))
          ELSE [o EXCEPT !.pc = "signature", !.manifest = tree.manifest, !.idx = 1,
                         !.steps = Append(@, "ManifestLoaded")]]
  /\ extract' = Sweep(extract, clock, op')
  /\ UNCHANGED <<clock, updates, live, history, pubkey, before, build>>

\* Step 2: manifest.json must exist and is loaded
ManifestStep(w) ==
  /\ op[w].pc = "manifest"
  /\ LET o == op[w]
         tree == extract[o.extract_dir]
     IN op' = [op EXCEPT ![w] =
          IF ~(tree.exists /\ tree.manifest.present)
          THEN Raised(o, 400, Detail("Invalid SOUP package: manifest.json not found"))
          ELSE [o EXCEPT !.pc = "checksum", !.manifest = tree.manifest, !.idx = 1,
                         !.steps = Append(@, "ManifestLoaded")]]
  /\ extract' = Sweep(extract, clock, op')
  /\ UNCHANGED <<clock, updates, live, history, pubkey, before, build>>

\* Step 3: one turn of the loop over manifest['files']
ChecksumStep(w) ==
  /\ op[w].pc = "checksum"
  /\ LET o == op[w]
         tree == extract[o.extract_dir]
         files == o.manifest.files
     IN op' = [op EXCEPT ![w] =
          IF o.idx > Len(files)
          THEN [o EXCEPT !.pc = "signature", !.steps = Append(@, "ChecksumsVerified")]
          ELSE LET file_info == files[o.idx]
                   file == IF tree.exists THEN tree.files[file_info.path] ELSE NoFile
               IN IF file = NoFile
                  THEN Raised(o, 400, PathDetail("Missing file: ", file_info.path))
                  ELSE IF ~validate_checksum(file, file_info.sha512)
                  THEN Raised(o, 400, PathDetail("Checksum mismatch: ", file_info.path))
                  ELSE [o EXCEPT !.idx = @ + 1]]
  /\ extract' = Sweep(extract, clock, op')
  /\ UNCHANGED <<clock, updates, live, history, pubkey, before, build>>

\* a Step 4 that opens quorum_public.pem without asking whether it exists: the
\* FileNotFoundError of open() goes to the generic except clause
SignatureStep_open_unchecked(w) ==
  /\ op[w].pc = "signature"
  /\ LET o == op[w]
         tree == extract[o.extract_dir]
         signature == tree.sig
         v == verify_signature(updates[o.filename], signature, pubkey.key)
     IN op' = [op EXCEPT ![w] =
          IF ~(tree.exists /\ signature.present)
          THEN Raised(o, 400, Detail("Missing signature file"))
          ELSE IF ~pubkey.present \/ v.raised
          THEN Failed([o EXCEPT !.signature = signature], "FileNotFoundError", clock)
          ELSE IF ~v.value
          THEN Raised([o EXCEPT !.signature = signature], 400, Detail("Invalid SOUP package signature"))
          ELSE [o EXCEPT !.pc = "apply", !.signature = signature,
                         !.steps = Append(@, "SignatureVerified")]]
  /\ extract' = Sweep(extract, clock, op')
  /\ before' = IF op'[w].pc = "apply"
               THEN [before EXCEPT ![op[w].manifest.version] = [taken |-> TRUE, files |-> live]]
               ELSE before
  /\ UNCHANGED <<clock, updates, live, history, pubkey, build>>

\* Step 4: signature.sig, the public key, verify_signature(temp_package, ...)
SignatureStep(w) ==
  /\ op[w].pc = "signature"
  /\ LET o == op[w]
         tree == extract[o.extract_dir]
         signature == tree.sig
         v == verify_signature(updates[o.filename], signature, pubkey.key)
     IN op' = [op EXCEPT ![w] =
          IF ~(tree.exists /\ signature.present)
          THEN Raised(o, 400, Detail("Missing signature file"))
          ELSE IF ~pubkey.present
          THEN Raised([o EXCEPT !.signature = signature], 500,
                      Detail("Security alert: SOUP public key 'quorum_public.pem' not found. Cannot verify update signature."))
          ELSE IF v.raised
          THEN Failed([o EXCEPT !.signature = signature], "FileNotFoundError", clock)
          ELSE IF ~v.value
          THEN Raised([o EXCEPT !.signature = signature], 400, Detail("Invalid SOUP package signature"))
          ELSE [o EXCEPT !.pc = "apply", !.signature = signature,
                         !.steps = Append(@, "SignatureVerified")]]
  /\ extract' = Sweep(extract, clock, op')
  /\ before' = IF op'[w].pc = "apply"
               THEN [before EXCEPT ![op[w].manifest.version] = [taken |-> TRUE, files |-> live]]
               ELSE before
  /\ UNCHANGED <<clock, updates, live, history, pubkey, build>>

\* Step 5: what iterdir() of the three category subtrees still has to copy
Pending(o, tree) ==
  {p \in Paths : tree.exists /\ tree.files[p] # NoFile /\ p[2] \notin Range(o.update_summary[p[1]])}

CatIndex(c) == CHOOSE i \in DOMAIN Categories : Categories[i] = c

\* the category whose loop is running: models, then rules, then threat_intel
Current(pending) ==
  {p \in pending : \A q \in pending : CatIndex(p[1]) <= CatIndex(q[1])}

\* a copy that leaves a live file of the same name as it is
CopyStep_keep_existing(w) ==
  /\ op[w].pc = "apply"
  /\ LET o == op[w]
         tree == extract[o.extract_dir]
     IN \E p \in Current(Pending(o, tree)) :
          /\ live' = [live EXCEPT ![p] = IF @ = NoFile THEN tree.files[p] ELSE @]
          /\ op' = [op EXCEPT ![w].update_summary[p[1]] = Append(@, p[2]),
                              ![w].steps = IF "Applied" \in Range(@) THEN @ ELSE Append(@, "Applied")]
  /\ UNCHANGED <<clock, updates, extract, history, pubkey, before, build>>

\* one shutil.copy2 into the live directory, and the name goes into the summary
CopyStep(w) ==
  /\ op[w].pc = "apply"
  /\ LET o == op[w]
         tree == extract[o.extract_dir]
     IN \E p \in Current(Pending(o, tree)) :
          /\ live' = [live EXCEPT ![p] = tree.files[p]]
          /\ op' = [op EXCEPT ![w].update_summary[p[1]] = Append(@, p[2]),
                              ![w].steps = IF "Applied" \in Range(@) THEN @ ELSE Append(@, "Applied")]
  /\ UNCHANGED <<clock, updates, extract, history, pubkey, before, build>>

\* shutil.copy2 raises (disk full, permissions, ...): the generic except clause
CopyFails(w) ==
  /\ op[w].pc = "apply"
  /\ Pending(op[w], extract[op[w].extract_dir]) # {}
  /\ op' = [op EXCEPT ![w] = Failed(op[w], "OSError", clock)]
  /\ UNCHANGED <<clock, updates, extract, live, history, pubkey, before, build>>

\* Step 6: the success record is built; save_update_history follows
RecordStep(w) ==
  /\ op[w].pc = "apply"
  /\ Pending(op[w], extract[op[w].extract_dir]) = {}
  /\ op' = [op EXCEPT ![w].pc = "save_load", ![w].next = "cleanup",
                      ![w].info = [timestamp |-> clock, version |-> op[w].manifest.version,
                                   package |-> op[w].filename, status |-> "success",
                                   summary |-> op[w].update_summary]]
  /\ UNCHANGED <<clock, updates, extract, live, history, pubkey, before, build>>

\* Cleanup, first statement: temp_package.unlink()
CleanupStep(w) ==
  /\ op[w].pc = "cleanup"
  /\ LET o == op[w]
     IN IF updates[o.filename].kind = "none"
        THEN /\ op' = [op EXCEPT ![w] = Failed(o, "FileNotFoundError", clock)]
             /\ UNCHANGED updates
        ELSE /\ updates' = [updates EXCEPT ![o.filename] = NoUpload]
             /\ op' = [op EXCEPT ![w].pc = "rmtree"]
  /\ UNCHANGED <<clock, extract, live, history, pubkey, before, build>>

\* Cleanup, second statement: shutil.rmtree(extract_dir), then the response
RmtreeStep(w) ==
  /\ op[w].pc = "rmtree"
  /\ LET o == op[w]
     IN IF ~extract[o.extract_dir].exists
        THEN /\ op' = [op EXCEPT ![w] = Failed(o, "FileNotFoundError", clock)]
             /\ UNCHANGED extract
        ELSE /\ extract' = [extract EXCEPT ![o.extract_dir] = NoTree]
             /\ op' = [op EXCEPT ![w].pc = "done",
                         ![w].result = [status_code |-> 200,
                                        detail |-> Detail("SOUP update applied successfully"),
                                        body |-> <<o.manifest.version, o.update_summary,
                                                   o.info.timestamp>>]]
  /\ UNCHANGED <<clock, updates, live, history, pubkey, before, build>>

(***************************************************************************)
(* GET /soup/status, GET /soup/history, POST /soup/rollback.               *)
(***************************************************************************)
\* Python's seq[start:], start possibly negative
SliceFrom(seq, start) ==
  LET n == Len(seq)
      from == IF start < 0 THEN (IF n + start < 0 THEN 0 ELSE n + start)
              ELSE (IF start > n THEN n ELSE start)
  IN SubSeq(seq, from + 1, n)

\* a status that takes the installed models from the records of the history
get_soup_status_from_history ==
  LET loaded == load_update_history
      recorded == UNION {IF "summary" \in DOMAIN loaded[i] THEN Range(loaded[i].summary.models) ELSE {}
                           : i \in DOMAIN loaded}
  IN [status |-> "operational",
      current_models |-> recorded,
      last_update |-> IF loaded # <<>> THEN loaded[Len(loaded)] ELSE NoInfo,
      update_count |-> Len(loaded),
      recent_updates |-> IF Len(loaded) > 5 THEN SliceFrom(loaded, -5) ELSE loaded]

get_soup_status ==
  LET loaded == load_update_history
      current_models == {p[2] : p \in {q \in Paths : q[1] = "models" /\ live[q] # NoFile
                                         /\ (endswith(q[2], ".pkl") \/ endswith(q[2], ".tflite"))}}
  IN [status |-> "operational",
      current_models |-> current_models,
      last_update |-> IF loaded # <<>> THEN loaded[Len(loaded)] ELSE NoInfo,
      update_count |-> Len(loaded),
      recent_updates |-> IF Len(loaded) > 5 THEN SliceFrom(loaded, -5) ELSE loaded]

get_update_history(limit) ==
  LET loaded == load_update_history
  IN [total_updates |-> Len(loaded),
      updates |-> IF Len(loaded) > limit THEN SliceFrom(loaded, -limit) ELSE loaded]

Limits == 0..(MaxHistory + 1)

GetStatus(w) ==
  /\ Free(w)
  /\ op' = [op EXCEPT ![w] =
        [Idle EXCEPT !.pc = "done", !.kind = "status",
                     !.result = [status_code |-> 200, detail |-> Detail("status"), body |-> get_soup_status]]]
  /\ UNCHANGED <<clock, updates, extract, live, history, pubkey, before, build>>

GetHistory(w, limit) ==
  /\ Free(w)
  /\ op' = [op EXCEPT ![w] =
        [Idle EXCEPT !.pc = "done", !.kind = "history", !.idx = limit,
                     !.result = [status_code |-> 200, detail |-> Detail("history"),
                                 body |-> get_update_history(limit)]]]
  /\ UNCHANGED <<clock, updates, extract, live, history, pubkey, before, build>>

\* a rollback_update that does not look the version up in the history
Rollback_unchecked(w, version) ==
  /\ Free(w)
  /\ Len(history) < MaxHistory
  /\ op' = [op EXCEPT ![w] =
       [Idle EXCEPT !.pc = "save_load", !.kind = "rollback", !.next = "rollback",
                    !.info = [timestamp |-> clock, action |-> "rollback",
                              target_version |-> version, status |-> "simulated"]]]
  /\ UNCHANGED <<clock, updates, extract, live, history, pubkey, before, build>>

\* a rollback_update that also logs the requests it turns down
Rollback_logs_attempt(w, version) ==
  /\ Free(w)
  /\ Len(history) < MaxHistory
  /\ LET loaded == load_update_history
         found == \E i \in DOMAIN loaded :
                     "version" \in DOMAIN loaded[i] /\ loaded[i].version = version
     IN IF ~found
        THEN /\ op' = [op EXCEPT ![w] =
                    Raised([Idle EXCEPT !.kind = "rollback"], 404, ErrorDetail("Version not found", version))]
             /\ history' = save_update_history(loaded,
                    [timestamp |-> clock, action |-> "rollback",
                     target_version |-> version, status |-> "not_found"])
        ELSE /\ op' = [op EXCEPT ![w] =
                    [Idle EXCEPT !.pc = "save_load", !.kind = "rollback", !.next = "rollback",
                                 !.info = [timestamp |-> clock, action |-> "rollback",
                                           target_version |-> version, status |-> "simulated"]]]
             /\ UNCHANGED history
  /\ UNCHANGED <<clock, updates, extract, live, pubkey, before, build>>

\* rollback_update: the first record with that version is looked up, then a
\* record of the rollback is saved; no file is touched
Rollback(w, version) ==
  /\ Free(w)
  /\ Len(history) < MaxHistory
  /\ LET loaded == load_update_history
         found == \E i \in DOMAIN loaded :
                     "version" \in DOMAIN loaded[i] /\ loaded[i].version = version
     IN op' = [op EXCEPT ![w] =
          IF ~found
          THEN Raised([Idle EXCEPT !.kind = "rollback"], 404, ErrorDetail("Version not found", version))
          ELSE [Idle EXCEPT !.pc = "save_load", !.kind = "rollback", !.next = "rollback",
                            !.info = [timestamp |-> clock, action |-> "rollback",
                                      target_version |-> version, status |-> "simulated"]]]
  /\ UNCHANGED <<clock, updates, extract, live, history, pubkey, before, build>>

\* the answers of a handler whose save_update_history raised
HistoryFault(result) ==
  result.detail \in {Detail("Internal Server Error"), ErrorDetail("", str(HistoryError))}

\* the response has been sent: the handler's frame is gone.  A deployment is
\* followed up to the first failure of its history file: the worker that met
\* it takes no further request.
Respond(w) ==
  /\ op[w].pc = "done"
  /\ ~HistoryFault(op[w].result)
  /\ op' = [op EXCEPT ![w] = Idle]
  /\ UNCHANGED <<clock, updates, extract, live, history, pubkey, before, build>>

\* a second passes
Tick ==
  /\ clock < MaxClock
  /\ clock' = clock + 1
  /\ extract' = Sweep(extract, clock', op)
  /\ UNCHANGED <<updates, live, history, pubkey, op, before, build>>

(***************************************************************************)
(* One event loop: a handler runs to its response before the next request  *)
(* is taken (the handlers are coroutines that never await).                *)
(***************************************************************************)
Main == "w1"

Step(w) ==
  \/ ExtractStep(w)
  \/ ManifestStep(w)
  \/ ChecksumStep(w)
  \/ SignatureStep(w)
  \/ CopyStep(w)
  \/ CopyFails(w)
  \/ RecordStep(w)
  \/ SaveLoad(w)
  \/ SaveWrite(w)
  \/ SaveFails(w)
  \/ CleanupStep(w)
  \/ RmtreeStep(w)
  \/ Respond(w)

Next ==
  \/ \E n \in UploadNames, d \in Uploads : NoneInFlight /\ ApplyUpload(Main, n, d)
  \/ \E v \in Versions : NoneInFlight /\ Rollback(Main, v)
  \/ NoneInFlight /\ GetStatus(Main)
  \/ \E l \in Limits : NoneInFlight /\ GetHistory(Main, l)
  \/ Step(Main)
  \/ Tick

Spec == Init /\ [][Next]_vars

(***************************************************************************)
(* Several server processes over the same UPDATES_DIR and live directories *)
(* (uvicorn --workers N): each runs its own event loop, nothing in the      *)
(* handlers takes a lock, so the steps of their handlers interleave.        *)
(***************************************************************************)
ConcUploads == {U_carrier, U_built}

NextConc ==
  \/ \E w \in Workers, d \in ConcUploads : ApplyUpload(w, SoupName, d)
  \/ \E w \in Workers : Rollback(w, "2.1.0")
  \/ \E w \in Workers : Step(w)

\* a deployment with its public key installed
InitConc == Init /\ pubkey.present

\* the requests of one and the same second
SpecConc == InitConc /\ [][NextConc]_vars

(***************************************************************************)
(* SOUPBuilder.create_package on the connected machine, one action per     *)
(* statement group.  A build that raises leaves temp_soup_<version> as it   *)
(* is; the next build of the version finds it (mkdir(exist_ok=True)).       *)
(***************************************************************************)
BuildVersion == "2.1.0"
consumer == <<clock, updates, extract, live, history, pubkey, op, before>>

SourceDirs(cat) ==
  CASE cat = "models" -> {NoDir, ModelsSrc}
    [] cat = "rules" -> {NoDir, RulesSrc, MkDir([n \in {Rule1} |-> "DEF"])}
    [] OTHER -> {NoDir, IntelSrc}

\* the build raised at the statement group `at`
BuildRaised(b, at) == [b EXCEPT !.pc = "failed", !.failed_at = at]

\* lines 37-47: the call, temp_dir.mkdir(exist_ok=True), the empty manifest
BuildStart(models_dir, rules_dir, threat_intel_dir) ==
  /\ build.pc \in {"idle", "built", "failed"}
  /\ build.runs < MaxBuilds
  /\ build' = [build EXCEPT !.pc = "stage", !.cat = 1, !.runs = @ + 1,
                            !.models_dir = models_dir, !.rules_dir = rules_dir,
                            !.threat_intel_dir = threat_intel_dir,
                            !.temp_dir.exists = TRUE,
                            !.manifest = Manifest(BuildVersion, <<>>),
                            !.zip_data = <<>>, !.signature = NoSig,
                            !.written = {}, !.failed_at = "none"]
  /\ UNCHANGED consumer

\* the manifest paths listed so far
Listed(manifest) == {manifest.files[i].path : i \in DOMAIN manifest.files}

\* lines 49-78: one turn of a category's loop, or the step to the next category
StageStep ==
  /\ build.pc = "stage"
  /\ LET b == build
         c == Categories[b.cat]
         dir == CASE c = "models" -> b.models_dir
                  [] c = "rules" -> b.rules_dir
                  [] OTHER -> b.threat_intel_dir
         pending == Staged(c, dir, ".json") \ Listed(b.manifest)
         next_cat == [b EXCEPT !.cat = @ + 1,
                               !.pc = IF b.cat = Len(Categories) THEN "manifest" ELSE "stage"]
     IN IF ~dir.exists THEN build' = next_cat
        ELSE IF c = "models" THEN build' = BuildRaised(b, "stage")   \* generator + generator
        ELSE IF pending = {} THEN build' = next_cat
        ELSE \E q \in pending :
               build' = [b EXCEPT !.temp_dir.files[q] = dir.files[q[2]],
                                  !.manifest.files = Append(@, Entry(q, sha512(dir.files[q[2]])))]
  /\ UNCHANGED consumer

\* lines 80-82: manifest.json is written into the staging directory
ManifestWrite ==
  /\ build.pc = "manifest"
  /\ build' = [build EXCEPT !.pc = "archive", !.temp_dir.manifest = build.manifest]
  /\ UNCHANGED consumer

\* lines 84-93: update.zip holds every file under temp_dir but itself
ArchiveStep ==
  /\ build.pc = "archive"
  /\ build' = [build EXCEPT !.pc = "sign",
                            !.zip_data = Zip(build.temp_dir.manifest, build.temp_dir.sig,
                                             build.temp_dir.files)]
  /\ UNCHANGED consumer

\* a builder that signs what it is about to emit
SignStep_encrypted ==
  /\ build.pc = "sign"
  /\ LET signature == Sign(Builder.private_key, Encrypt(Builder.cipher, build.zip_data))
     IN build' = [build EXCEPT !.pc = "emit_soup", !.signature = signature,
                               !.temp_dir.sig = signature]
  /\ UNCHANGED consumer

\* lines 95-106: the archive bytes are signed, signature.sig is written
SignStep ==
  /\ build.pc = "sign"
  /\ LET signature == Sign(Builder.private_key, build.zip_data)
     IN build' = [build EXCEPT !.pc = "emit_soup", !.signature = signature,
                               !.temp_dir.sig = signature]
  /\ UNCHANGED consumer

\* lines 108-113: the archive bytes are encrypted and written as the .soup file
EmitSoup ==
  /\ build.pc = "emit_soup"
  /\ build' = [build EXCEPT !.pc = "emit_sig",
                            !.out.soup = Encrypt(Builder.cipher, build.zip_data),
                            !.written = @ \cup {"soup"}]
  /\ UNCHANGED consumer

\* line 116: the detached .sig file
EmitSig ==
  /\ build.pc = "emit_sig"
  /\ build' = [build EXCEPT !.pc = "rmtree", !.out.sig = build.signature,
                            !.written = @ \cup {"sig"}]
  /\ UNCHANGED consumer

\* lines 118-126: shutil.rmtree(temp_dir), return soup_path
BuildCleanup ==
  /\ build.pc = "rmtree"
  /\ build' = [build EXCEPT !.pc = "built", !.temp_dir = NoTree]
  /\ UNCHANGED consumer

\* a builder that reports an I/O error only after it has written its output
BuildFails_late ==
  /\ build.pc \in {"stage", "manifest", "archive", "emit_soup", "emit_sig"}
  /\ build' = BuildRaised([build EXCEPT !.out.soup = Encrypt(Builder.cipher, build.zip_data),
                                        !.written = @ \cup {"soup"}], build.pc)
  /\ UNCHANGED consumer

\* a read or write raises OSError (disk full, permissions): the exception
\* leaves create_package, nothing catches it
BuildFails ==
  /\ build.pc \in {"stage", "manifest", "archive", "emit_soup", "emit_sig"}
  /\ build' = BuildRaised(build, build.pc)
  /\ UNCHANGED consumer

NextBuild ==
  \/ \E m \in SourceDirs("models"), r \in SourceDirs("rules"), t \in SourceDirs("threat_intel") :
       BuildStart(m, r, t)
  \/ StageStep
  \/ ManifestWrite
  \/ ArchiveStep
  \/ SignStep
  \/ EmitSoup
  \/ EmitSig
  \/ BuildCleanup
  \/ BuildFails

SpecBuild == Init /\ [][NextBuild]_vars

(***************************************************************************)
(* The sequential deployment under uploads that put a file into a category *)
(* subtree which no manifest of theirs lists.                              *)
(***************************************************************************)
\* no manifest.json, one file under models/
U_unlisted == Encrypt(SharedKey, Zip(NoManifest, NoSig, [NoFiles EXCEPT ![PModel] = "M1"]))

UnlistedUploads == {U_unlisted, U_carrier, U_built}

NextUnlisted ==
  \/ \E d \in UnlistedUploads : NoneInFlight /\ ApplyUpload(Main, SoupName, d)
  \/ Step(Main)
  \/ Tick

SpecUnlisted == InitConc /\ [][NextUnlisted]_vars

(***************************************************************************)
(* Helpers of the properties.                                              *)
(***************************************************************************)
IsPrefix(a, b) == Len(a) <= Len(b) /\ SubSeq(b, 1, Len(a)) = a

PipelineOrder ==
  <<"Decrypted", "ManifestLoaded", "ChecksumsVerified", "SignatureVerified", "Applied">>

Running(o) == o.pc \notin {"idle", "done"}
Copied(o) == {p \in Paths : p[2] \in Range(o.update_summary[p[1]])}

\* every entry of the manifest names a file of the tree whose digest matches
ChecksumsHold(manifest, tree) ==
  \A i \in DOMAIN manifest.files :
    /\ tree.files[manifest.files[i].path] # NoFile
    /\ sha512(tree.files[manifest.files[i].path]) = manifest.files[i].sha512

\* an accepted upload of an update request
Accepted(o) == o.kind = "update" /\ endswith(o.filename, ".soup")

IntegrityError(result) ==
  /\ result.status_code = 400
  /\ result.detail.msg \in {"Missing file: ", "Checksum mismatch: "}
  /\ result.detail.path \in Paths

AuthenticityError(result) ==
  result = HTTPException(400, Detail("Invalid SOUP package signature"))

(***************************************************************************)
(* C1..C10                                                                 *)
(***************************************************************************)
\* C1: a file is copied into a live directory only after, in the same
\* operation and in this order, the artifact decrypted, manifest.json was
\* loaded, every manifest entry passed its checksum and the signature verified
\* over the uploaded file under the installed public key; the steps an update
\* has passed are always an initial part of that order (none skipped, none
\* taken twice).
C1_VerifiedBeforeApply ==
  \A w \in Workers :
    LET o == op[w] IN
      /\ IsPrefix(o.steps, PipelineOrder)
      /\ (o.pc = "apply" \/ Copied(o) # {}) =>
           /\ Accepted(o)
           /\ IsPrefix(SubSeq(PipelineOrder, 1, 4), o.steps)
           /\ FernetDecrypt(SharedKey, o.upload).ok
           /\ o.manifest.present
           /\ pubkey.present /\ RsaVerify(pubkey.key, o.signature, o.upload)
           /\ Running(o) => ChecksumsHold(o.manifest, extract[o.extract_dir])

C1_Witness ==
  \E w \in Workers : op[w].kind = "update" /\ Copied(op[w]) # {} /\ op[w].pc = "apply"

\* C2: a package built by create_package from a file set F, applied with the
\* matching public key and the same symmetric key, installs exactly F and ends
\* with a success record.
C2_RoundTrip ==
  \A w \in Workers :
    LET o == op[w]
        F == {p \in Paths : Built.zip.files[p] # NoFile}
    IN (/\ Accepted(o) /\ o.pc = "done"
        /\ Built.ok /\ o.upload = Built.soup
        /\ pubkey.present /\ pubkey.key = Builder.private_key)
       => /\ o.result.status_code = 200
          /\ Copied(o) = F
          /\ \A p \in F : live[p] = Built.zip.files[p]
          /\ history # <<>>
          /\ history[Len(history)].status = "success"
          /\ history[Len(history)].version = Built.zip.manifest.version

\* C3: the byte object handed to signature verification is the byte object
\* the Builder signed, so the Builder's signature over an untampered package
\* verifies under the matching public key.
C3_SameSignedObject ==
  \A w \in Workers :
    LET o == op[w] IN
      (/\ Accepted(o) /\ o.upload \in Genuine
       /\ o.signature = Built.signature
       /\ pubkey.present /\ pubkey.key = Builder.private_key)
      => /\ o.signature.data = o.upload
         /\ ~AuthenticityError(o.result)

\* C4: an artifact one changed byte away from a Builder-made one never
\* reaches the apply step; its update fails at decryption, at checksum
\* verification or at signature verification.
C4_TamperDetected ==
  \A w \in Workers :
    LET o == op[w] IN
      (Accepted(o) /\ \E g \in Genuine : o.upload \in Tampered(g))
      => /\ o.pc # "apply"
         /\ Copied(o) = {}
         /\ "SignatureVerified" \notin Range(o.steps)
         /\ o.pc = "done" =>
              \/ o.result = HTTPException(500, ErrorDetail("Update failed: ", str("InvalidToken")))
              \/ o.steps = <<>> /\ HistoryFault(o.result)
              \/ IntegrityError(o.result)
              \/ /\ o.steps = SubSeq(PipelineOrder, 1, 3)
                 /\ o.result.status_code \in {400, 500}

C4_Witness ==
  \E w \in Workers :
    /\ Accepted(op[w]) /\ op[w].pc = "done"
    /\ op[w].upload = [U_built EXCEPT !.enc = 1]
    /\ op[w].signature = Sign(SigningKey, U_built)
    /\ AuthenticityError(op[w].result)

\* C5: when a payload file's bytes differ from the digest its manifest entry
\* records, the update ends with an integrity error and copies no file.
C5_IntegrityEnforced ==
  \A w \in Workers :
    LET o == op[w]
        d == FernetDecrypt(SharedKey, o.upload)
    IN (/\ Accepted(o) /\ d.ok /\ d.data.manifest.present
        /\ \E i \in DOMAIN d.data.manifest.files :
             LET e == d.data.manifest.files[i] IN
               /\ d.data.files[e.path] # NoFile
               /\ sha512(d.data.files[e.path]) # e.sha512)
       => /\ Copied(o) = {}
          /\ o.pc \notin {"signature", "apply", "cleanup", "rmtree"}
          /\ o.pc = "done" => IntegrityError(o.result)

C5_Witness ==
  \E w \in Workers :
    /\ Accepted(op[w]) /\ op[w].pc = "done" /\ op[w].upload = U_mismatch
    /\ op[w].result = HTTPException(400, PathDetail("Checksum mismatch: ", PRule))
    /\ live[PRule] # "XYZ"

\* C6: a package whose checksums pass and whose signature was made with a
\* private key that does not match the installed public key ends with an
\* authenticity error and is never applied.
C6_WrongKeyRejected ==
  \A w \in Workers :
    LET o == op[w] IN
      (/\ Accepted(o) /\ o.signature.present
       /\ pubkey.present /\ o.signature.signer # pubkey.key)
      => /\ o.pc = "done"
         /\ AuthenticityError(o.result)
         /\ Copied(o) = {}
         /\ o.steps = SubSeq(PipelineOrder, 1, 3)

C6_Witness ==
  \E w \in Workers :
    /\ Accepted(op[w]) /\ op[w].pc = "done" /\ op[w].upload = U_built
    /\ op[w].signature = Sign(ForeignKey, U_built)
    /\ AuthenticityError(op[w].result)

\* the rejections of the package-format, integrity and authenticity kinds
PackageFormatError(result) ==
  /\ result.status_code = 400
  /\ result.detail.msg \in {"Invalid SOUP package: manifest.json not found", "Missing signature file"}

Rejected(o) ==
  /\ Accepted(o) /\ o.pc = "done"
  /\ PackageFormatError(o.result) \/ IntegrityError(o.result) \/ AuthenticityError(o.result)

\* C7: when an update is rejected for a package-format, integrity or
\* authenticity error, a failed UpdateRecord of it is in the history by the
\* time the rejection is returned.
C7_RejectionRecorded ==
  \A w \in Workers :
    Rejected(op[w]) =>
      /\ history # <<>>
      /\ history[Len(history)].status = "failed"
      /\ history[Len(history)].package = op[w].filename

\* C8: once apply_soup_update has returned, the uploaded artifact file it saved
\* and the extraction tree it made no longer exist, whatever the exit path.
C8_ScopedResourcesReleased ==
  \A w \in Workers :
    LET o == op[w] IN
      (o.kind = "update" /\ o.pc = "done" /\ o.created) =>
        /\ updates[o.filename] = NoUpload
        /\ ~extract[o.extract_dir].exists

\* C9: the history only grows at its end: across every step of update,
\* rollback, status and history requests the old history is an initial part
\* of the new one, so no record, failed ones included, is changed, dropped or
\* moved.
C9_AppendOnly == [][IsPrefix(history, history')]_vars

C9_Witness ==
  /\ Len(history) = 2
  /\ history[1].status = "failed"
  /\ history[2].status \in {"success", "simulated"}

\* C10: an update that completes with success has added exactly one record,
\* its own, after all the records that were there, also when an earlier
\* record carries the same version: applying a package twice leaves two
\* records.
C10_OneRecordPerApplication ==
  \A w \in Workers :
    LET o == op[w] IN
      (o.kind = "update" /\ o.pc = "done" /\ o.result.status_code = 200) =>
        /\ history = Append(o.hist, o.info)
        /\ o.info.status = "success"
        /\ o.info.version = o.manifest.version
        /\ o.info.package = o.filename
        /\ o.info.summary = o.update_summary

C10_Witness ==
  \E w \in Workers :
    /\ op[w].kind = "update" /\ op[w].pc = "done" /\ op[w].result.status_code = 200
    /\ Len(history) = 2
    /\ history[1].status = "success" /\ history[2].status = "success"
    /\ history[1].version = history[2].version
    /\ history[1].package = history[2].package

(***************************************************************************)
(* C11..C20                                                                *)
(***************************************************************************)
\* an update or rollback between its decryption step and its history write
Critical(o) ==
  /\ o.kind \in {"update", "rollback"}
  /\ o.pc \in {"extract", "manifest", "checksum", "signature", "apply", "save_load", "save_write"}

\* C11: at most one update or rollback operation is between its decryption
\* step and the writing of its history record.
C11_MutualExclusion ==
  Cardinality({w \in Workers : Critical(op[w])}) <= 1

\* C12: an update or rollback request taken while another update or rollback
\* is in flight ends at once with the outcome "update already in progress".
C12_SecondRequestRejected ==
  [][\A w \in Workers :
       (/\ op[w].pc = "idle"
        /\ op'[w].kind \in {"update", "rollback"}
        /\ \E v \in Workers \ {w} : Critical(op[v]))
       => /\ op'[w].pc = "done"
          /\ op'[w].result.detail.msg = "update already in progress"]_vars

\* an operation that has come back from save_update_history
Saved(o) ==
  /\ o.pc \in {"cleanup", "rmtree", "done"} /\ o.info # NoInfo
  /\ ~HistoryFault(o.result)

\* C13: the records of all operations that have finished their
\* save_update_history are in the history file, each as often as it was saved.
C13_NoLostWrite ==
  \A w \in Workers :
    Saved(op[w]) =>
      Cardinality({i \in DOMAIN history : history[i] = op[w].info})
        >= Cardinality({v \in Workers : Saved(op[v]) /\ op[v].info = op[w].info})

\* a rollback that has answered with status success
RolledBack(o) == o.kind = "rollback" /\ o.pc = "done" /\ o.result.status_code = 200

\* C14: a rollback answers success only when it has restored live files from
\* a snapshot; without a snapshot of the version it answers "unavailable".
C14_NoSuccessWithoutRestore ==
  \A w \in Workers :
    LET o == op[w] IN
      (o.kind = "rollback" /\ o.pc = "done" /\ "Restored" \notin Range(o.steps))
        => /\ o.result.status_code # 200
           /\ o.result.detail.msg # "success"

\* C15: after a successful rollback(version) the live directories hold what
\* they held immediately before the update that produced that version.
C15_RollbackRestoresPreUpdate ==
  \A w \in Workers :
    LET o == op[w] IN
      RolledBack(o) =>
        /\ before[o.info.target_version].taken
        /\ live = before[o.info.target_version].files

\* C16: an update that has begun to copy took, after its signature check and
\* before its first copy, a snapshot of the live directories.
C16_SnapshotBeforeApply ==
  \A w \in Workers :
    LET o == op[w] IN
      (o.kind = "update" /\ Copied(o) # {}) =>
        \E i \in DOMAIN o.steps :
          /\ o.steps[i] = "SignatureVerified"
          /\ i + 2 <= Len(o.steps)
          /\ o.steps[i + 1] = "SnapshotTaken"
          /\ o.steps[i + 2] = "Applied"

\* C17: an update whose copy into the live directories failed leaves, when it
\* returns, the live directories as they were before it began to copy.
C17_ApplyAllOrNothing ==
  \A w \in Workers :
    LET o == op[w] IN
      (/\ o.kind = "update" /\ o.pc = "done"
       /\ "SignatureVerified" \in Range(o.steps)
       /\ o.result = HTTPException(500, ErrorDetail("Update failed: ", "OSError")))
      => live = before[o.manifest.version].files

\* a package with manifest.json, every listed file present under its digest,
\* and signature.sig
WellFormed(upload) ==
  LET d == FernetDecrypt(SharedKey, upload) IN
    /\ upload.kind = "token" /\ d.ok
    /\ d.data.manifest.present
    /\ d.data.sig.present
    /\ ChecksumsHold(d.data.manifest, d.data)

ConfigurationFault(result) ==
  result = HTTPException(500, Detail("Security alert: SOUP public key 'quorum_public.pem' not found. Cannot verify update signature."))

\* C18: with the public key file absent, an update of a well-formed package
\* copies no file, builds and saves no history record, and ends with the
\* configuration fault.
C18_MissingPublicKey ==
  \A w \in Workers :
    LET o == op[w] IN
      (Accepted(o) /\ WellFormed(o.upload) /\ ~pubkey.present) =>
        /\ Copied(o) = {}
        /\ o.info = NoInfo /\ o.hist = <<>>
        /\ o.pc \notin {"apply", "save_load", "save_write", "cleanup", "rmtree"}
        /\ o.pc = "done" => ConfigurationFault(o.result)

C18_Witness ==
  \E w \in Workers :
    /\ Accepted(op[w]) /\ op[w].pc = "done" /\ op[w].upload = U_embedded
    /\ ~pubkey.present
    /\ ConfigurationFault(op[w].result)
    /\ op[w].steps = SubSeq(PipelineOrder, 1, 3)

\* C19: the signature file is read, and the signature verified, only after
\* every manifest entry was found and matched its digest; an update rejected
\* for a missing or mismatching file has read neither signature nor key.
C19_ChecksumsBeforeSignature ==
  \A w \in Workers :
    LET o == op[w] IN
      Accepted(o) =>
        /\ (o.pc = "signature" \/ o.signature.present \/ "SignatureVerified" \in Range(o.steps)
              \/ (o.pc = "done" /\ ConfigurationFault(o.result)))
             => /\ IsPrefix(SubSeq(PipelineOrder, 1, 3), o.steps)
                /\ o.idx = Len(o.manifest.files) + 1
                /\ Running(o) => ChecksumsHold(o.manifest, extract[o.extract_dir])
        /\ (o.pc = "done" /\ IntegrityError(o.result))
             => /\ o.signature = NoSig
                /\ o.steps = SubSeq(PipelineOrder, 1, 2)
                /\ o.idx <= Len(o.manifest.files)

C19_Witness ==
  \E w \in Workers :
    /\ Accepted(op[w]) /\ op[w].pc = "done" /\ op[w].upload = U_missing
    /\ op[w].result = HTTPException(400, PathDetail("Missing file: ", PRule))
    /\ extract[op[w].extract_dir].sig.present
    /\ op[w].signature = NoSig

InvalidFormat(result) ==
  result = HTTPException(400, Detail("Invalid file format. Expected .soup file"))

\* C20: the step that takes an upload whose file name does not end in .soup
\* answers the rejection at once and changes no saved upload, no extraction
\* tree, no history record and no live file; the handler has done no
\* pipeline step and built no record.
C20_ExtensionRejectedFirst ==
  [][\A w \in Workers :
       (/\ op[w].pc = "idle"
        /\ op'[w].kind = "update"
        /\ ~endswith(op'[w].filename, ".soup"))
       => /\ op'[w].pc = "done"
          /\ InvalidFormat(op'[w].result)
          /\ op'[w].steps = <<>> /\ op'[w].info = NoInfo /\ ~op'[w].created
          /\ UNCHANGED <<updates, extract, history, live>>]_vars

C20_Witness ==
  \E w \in Workers :
    /\ op[w].kind = "update" /\ op[w].pc = "done" /\ op[w].filename = ZipName
    /\ InvalidFormat(op[w].result)
    /\ updates[ZipName] = NoUpload
    /\ history # <<>>

(***************************************************************************)
(* C21..C30                                                                *)
(***************************************************************************)
\* an error text that tells a decryption failure from other failures
IdentifiesDecryption(error) ==
  error \in {"InvalidToken", "decryption_error", "Decryption failed"}

\* C21: an update whose artifact fails Fernet authentication has, when it
\* returns, appended a failed record whose error names a decryption error,
\* and has done none of the later steps.
C21_DecryptionErrorRecorded ==
  \A w \in Workers :
    LET o == op[w] IN
      (Accepted(o) /\ o.pc = "done" /\ ~FernetDecrypt(SharedKey, o.upload).ok) =>
        /\ o.steps = <<>> /\ Copied(o) = {}
        /\ history # <<>>
        /\ history[Len(history)].status = "failed"
        /\ history[Len(history)].package = o.filename
        /\ IdentifiesDecryption(history[Len(history)].error)

\* C22: an update that verified and copied every file, and whose only
\* failure is the reading or writing of the history file, answers success.
C22_HistoryFailureKeepsOutcome ==
  \A w \in Workers :
    LET o == op[w] IN
      (/\ o.kind = "update" /\ o.pc = "done"
       /\ "SignatureVerified" \in Range(o.steps)
       /\ o.info.status = "success" \/ o.info.error = str(HistoryError))
      => o.result.status_code = 200

\* C23: the status answered by get_soup_status counts the records of the
\* history, gives the newest record as last_update (none for an empty
\* history), and lists as current_models the model files that are in the live
\* models directory, also when no record of the history mentions them.
C23_StatusReflectsState ==
  \A w \in Workers :
    LET o == op[w] IN
      (o.kind = "status" /\ o.pc = "done") =>
        /\ o.result.status_code = 200
        /\ o.result.body.update_count = Len(history)
        /\ IF Len(history) = 0
           THEN o.result.body.last_update = NoInfo
           ELSE o.result.body.last_update = history[Len(history)]
        /\ \A n \in {ModelA[1]} \X {".pkl", ".tflite"} :
             n \in o.result.body.current_models <=> (<<"models", n>> \in Paths /\ live[<<"models", n>>] # NoFile)
        /\ \A n \in o.result.body.current_models : <<"models", n>> \in Paths

C23_Witness ==
  \E w \in Workers :
    /\ op[w].kind = "status" /\ op[w].pc = "done"
    /\ op[w].result.body.current_models = {ModelA}
    /\ op[w].result.body.update_count = 2
    /\ op[w].result.body.last_update.status = "success"
    /\ op[w].result.body.last_update.summary.models = <<>>

\* C24: every record of the history has status success or failed and has a
\* version field.
C24_RecordShape ==
  \A i \in DOMAIN history :
    /\ history[i].status \in {"success", "failed"}
    /\ "version" \in DOMAIN history[i]

\* C25: verify_signature answers False and raises nothing whenever it does
\* not verify, an unreadable data file included: an update that has read its
\* signature and key and was not verified ends with the authenticity error
\* and nothing else.
C25_VerifyNeverRaises ==
  \A w \in Workers :
    LET o == op[w] IN
      (/\ o.kind = "update" /\ o.signature.present /\ pubkey.present
       /\ "SignatureVerified" \notin Range(o.steps))
      => /\ o.pc = "done"
         /\ AuthenticityError(o.result)

\* the archive inside the emitted artifact
Emitted == FernetDecrypt(Builder.cipher, build.out.soup)

\* C26: the artifact of a finished build decrypts to an archive that holds
\* manifest.json and signature.sig.
C26_SignatureEmbedded ==
  build.pc = "built" =>
    /\ Emitted.ok
    /\ Emitted.data.manifest.present
    /\ Emitted.data.sig.present

\* C27: in the archive of a build, leftover staging directory or not, the
\* payload files are exactly the paths of the manifest, each listed once with
\* the digest of its archived bytes.
C27_ManifestIsPayload ==
  build.pc \in {"sign", "emit_soup", "emit_sig", "rmtree", "built"} =>
    LET zip == build.zip_data IN
      /\ {q \in Paths : zip.files[q] # NoFile} = Listed(zip.manifest)
      /\ Cardinality(Listed(zip.manifest)) = Len(zip.manifest.files)
      /\ ChecksumsHold(zip.manifest, zip)

\* C28: a build that raised while staging, writing the manifest or archiving
\* has written neither the .soup file nor the .sig file.
C28_NoPartialArtifact ==
  (build.pc = "failed" /\ build.failed_at \in {"stage", "manifest", "archive"}) =>
    /\ build.written = {}
    /\ build.runs = 1 => build.out = NoOutput

C28_Witness ==
  /\ build.pc = "failed" /\ build.failed_at = "archive"
  /\ build.temp_dir.files[PRule] # NoFile
  /\ build.temp_dir.manifest.present
  /\ build.out = NoOutput

\* C29: the detached .sig file of a finished build verifies, under the public
\* key of the signing key, against the bytes the emitted .soup decrypts to.
C29_DetachedSignatureVerifies ==
  build.pc = "built" =>
    /\ Emitted.ok
    /\ RsaVerify(SigningKey, build.out.sig, Emitted.data)
    /\ ~RsaVerify(ForeignKey, build.out.sig, Emitted.data)

C29_Witness ==
  /\ build.pc = "built" /\ build.runs = 2
  /\ build.out.sig.present
  /\ Emitted.data.files[PRule] = "DEF"
  /\ Emitted.data.files[PIntel] = "ABC"
  /\ Emitted.data.sig.present

C31_FreshExtractionTree ==
  \A w \in Workers :
    LET o == op[w] IN
      (/\ o.kind = "update"
       /\ o.pc \in {"manifest", "checksum", "signature", "apply"})
      => extract[o.extract_dir]
           = extractall(EmptyTree, FernetDecrypt(SharedKey, o.upload).data)

\* C32: every file an update has copied into a live directory is listed in
\* the manifest the update loaded, and the bytes installed have the digest of
\* that entry; a file of a category subtree that the manifest does not list
\* is not installed.
C32_OnlyListedFilesInstalled ==
  \A w \in Workers :
    LET o == op[w] IN
      (o.kind = "update" /\ "Applied" \in Range(o.steps)) =>
        \A p \in Copied(o) :
          \E i \in DOMAIN o.manifest.files :
            /\ o.manifest.files[i].path = p
            /\ validate_checksum(live[p], o.manifest.files[i].sha512)

\* C33: an upload appends at most one record to the history.
C33_AtMostOneRecordPerUpload ==
  \A w \in Workers : op[w].kind = "update" => op[w].appended <= 1

\* the version a rollback request asked for
Target(o) == IF o.info = NoInfo THEN o.result.detail.error ELSE o.info.target_version
NotFound(o) == o.result.status_code = 404 /\ o.result.detail.msg = "Version not found"

\* C34: a rollback request is answered "not found" exactly when the history
\* holds no success record of an update with the version asked for; records
\* of failed updates and of earlier rollbacks do not make a version known.
C34_RollbackNeedsSuccessRecord ==
  \A w \in Workers :
    LET o == op[w] IN
      o.kind = "rollback" =>
        (NotFound(o) <=>
           ~\E i \in DOMAIN history :
               /\ history[i].status = "success"
               /\ history[i].version = Target(o))

C34_Witness ==
  \E w \in Workers :
    /\ op[w].kind = "rollback" /\ op[w].pc = "done" /\ NotFound(op[w])
    /\ Target(op[w]) = "2.1.0"
    /\ history # <<>>
    /\ \A i \in DOMAIN history :
         history[i].status = "failed" /\ history[i].package = SoupName

\* C35: a rollback request for a version that no record of the history
\* carries is answered at once with "not found"; taking the request and
\* answering it leave the history, the live directories, the saved uploads
\* and the extraction trees as they were, and the request writes no record.
C35_NotFoundChangesNothing ==
  [][\A w \in Workers :
       /\ (/\ Free(w) /\ op'[w].kind = "rollback"
           /\ ~\E i \in DOMAIN history :
                  "version" \in DOMAIN history[i] /\ history[i].version = Target(op'[w]))
          => /\ op'[w].pc = "done" /\ NotFound(op'[w])
             /\ op'[w].appended = 0
             /\ history' = history /\ live' = live
             /\ updates' = updates /\ extract' = extract
       /\ (op[w].kind = "rollback" /\ NotFound(op[w]))
          => /\ history' = history /\ live' = live /\ updates' = updates
             /\ op'[w] \in {op[w], Idle}]_vars

C35_Witness ==
  \E w \in Workers :
    /\ op[w].kind = "rollback" /\ op[w].pc = "done" /\ NotFound(op[w])
    /\ Target(op[w]) = "9.9.9"
    /\ Len(history) = 1 /\ history[1].status = "success" /\ history[1].version = "2.1.0"
    /\ live[PRule] = "ABC"

Min(a, b) == IF a < b THEN a ELSE b

\* C36: the answer of get_update_history(limit), limit >= 0, over a history
\* of n records holds total_updates = n and, as updates, the last
\* min(limit, n) records of the history in their order.
C36_HistoryLimit ==
  \A w \in Workers :
    LET o == op[w]
        n == Len(history)
        limit == o.idx
    IN (o.kind = "history" /\ o.pc = "done") =>
         /\ o.result.body.total_updates = n
         /\ Len(o.result.body.updates) = Min(limit, n)
         /\ o.result.body.updates = SubSeq(history, n - Min(limit, n) + 1, n)

====
